---- MODULE Spec2Model ----
(***************************************************************************)
(* State-machine model of the two benchmark scripts of the repository:     *)
(*   rocksbench.py  (run_benchmarks / benchmark_rocksdb, Embedded-KV)      *)
(*   s3bench.py     (benchmark_s3 with multipart_upload, Object-Storage)   *)
(* The main thread is a program counter `pc`; the tasks of the two         *)
(* ThreadPoolExecutor pools (chunk uploads, reads) are separate processes. *)
(* Times are fixed-point numbers in ticks of 10^-(NDIGITS+1) seconds, so   *)
(* that round(x, 5) is a real conversion (to a multiple of 10 ticks).      *)
(***************************************************************************)
EXTENDS Integers, Sequences, FiniteSets, TLC

\* ------------------------------------------------------------- bounds
\* The module-level configuration (FILE_COUNT, NUM_THREADS, FILE_SIZES_MB)
\* is drawn in Init from these bounded ranges.
MaxFileCount == 3
MaxThreads == 2
MaxSizes == 2
MaxFileSizeMB == 11

\* ---------------------------------------------------------- constants
NDIGITS == 5
PartSizeMB == 5

MiB == 1024 * 1024
part_size == PartSizeMB * MiB
TicksPerSecond == 10 ^ (NDIGITS + 1)

Variants == {"rocksdb", "s3"}

\* File sizes (MB) a configuration may list: below, at and above one and two
\* whole parts, up to MaxFileSizeMB.
SizeChoicesMB == {m \in 1..MaxFileSizeMB : m >= MaxFileSizeMB - 1 \/ m = PartSizeMB}

\* Elapsed wall time of the write loop, in ticks (0: the clock did not advance).
UploadTimeChoices == {0, 1234567}

\* Latency of one read, in ticks.
LatencyChoices == {1500, 2504}

\* Outcomes of s3.create_bucket.
BucketOutcomes == {"ok", "BucketAlreadyExists", "BucketAlreadyOwnedByYou", "ClientError"}

\* ------------------------------------------------------ pure functions
\* round(x, 5) on a value in ticks: to the nearest multiple of 10 ticks, ties to even.
round(x) ==
  LET q == x \div 10
      r == x % 10
  IN  IF r < 5 THEN q * 10
      ELSE IF r > 5 THEN (q + 1) * 10
      ELSE IF q % 2 = 0 THEN q * 10 ELSE (q + 1) * 10

\* Long division: quotient and remainder of n * 10^k by d, one decimal digit a step.
RECURSIVE LongDiv(_, _, _)
LongDiv(n, d, k) ==
  IF k = 0 THEN [q |-> n \div d, r |-> n % d]
  ELSE LET p == LongDiv(n, d, k - 1)
       IN  [q |-> p.q * 10 + ((p.r * 10) \div d), r |-> (p.r * 10) % d]

\* bytes / seconds / 1024 / 1024 in ticks (MB/s with NDIGITS+1 fractional digits);
\* t is in ticks and nonzero. Every length here is a whole number of MiB.
ThroughputMB(bytes, t) == LongDiv(bytes \div MiB, t, 2 * (NDIGITS + 1)).q

RECURSIVE SumLen(_)
SumLen(s) == IF s = <<>> THEN 0 ELSE Head(s).len + SumLen(Tail(s))

RECURSIVE SumLatency(_)
SumLatency(s) == IF s = <<>> THEN 0 ELSE Head(s).latency + SumLatency(Tail(s))

\* sum(latencies) / len(latencies), in ticks.
AvgLatency(s) == SumLatency(s) \div Len(s)

\* data_size = file_size_mb * 1024 * 1024
DataSize(mb) == mb * MiB

\* num_parts = len(data) // part_size + (1 if len(data) % part_size != 0 else 0)
NumParts(len) == (len \div part_size) + (IF len % part_size # 0 THEN 1 ELSE 0)

\* len(data[i * part_size:(i + 1) * part_size]) for the 1-based part number p.
PartLen(len, p) ==
  LET lo == (p - 1) * part_size
      hi == p * part_size
  IN  (IF hi < len THEN hi ELSE len) - (IF lo < len THEN lo ELSE len)


\* ---------------------------------------------------------------- state
VARIABLES
  variant,          \* which script runs
  file_count,       \* FILE_COUNT
  num_threads,      \* NUM_THREADS
  file_sizes_mb,    \* FILE_SIZES_MB
  pc,               \* position of the main thread
  error,            \* "none", or the exception that ended the run
  bucket,           \* outcome of s3.create_bucket ("unknown" before the call)
  sizeIdx,          \* 1-based index of the for loop over FILE_SIZES_MB
  fileIdx,          \* 1-based index of the for loop over test_files
  db,               \* the Rdict handle: "none", "open", "closed"
  test_files,       \* indices of the keys generated for this pass
  payloads,         \* indices of the files whose payload has been generated
  timer,            \* the write timer: "off", "running", "stopped"
  putInFlight,      \* indices of the files whose put has started and not returned
  stored,           \* indices of the files whose put returned normally
  mpu,              \* per file: the multipart upload and the receipts it was completed with
  chunks,           \* the chunk-upload pool of multipart_upload: part number -> task
  chunkOwner,       \* index of the file the chunk pool belongs to (0: no pool)
  parts,            \* the list `parts` of multipart_upload
  upload_time,      \* ticks; -1 before it is measured
  write_throughput, \* MB/s in ticks; -1 before it is computed
  reads,            \* the read pool: file index -> task
  results_read,     \* results of executor.map collected so far
  read_throughput,  \* MB/s in ticks; -1 before it is computed
  avg_latency,      \* ticks; -1 before it is computed
  series,           \* the metric series
  plotted,          \* the chart sink has been handed the series
  faulted,          \* history: size class of the first failed backend call (0: none)
  putCalls,         \* history: per file of this pass, puts issued
  getCalls,         \* history: per file of this pass, gets issued
  issuedClass       \* history: highest size class a put or get was issued for

config == <<variant, file_count, num_threads, file_sizes_mb>>
control == <<pc, error, sizeIdx, fileIdx>>
writeState == <<payloads, timer, putInFlight, stored, mpu, chunks, chunkOwner, parts>>
readState == <<reads, results_read>>
metrics == <<upload_time, write_throughput, read_throughput, avg_latency>>
history == <<faulted, putCalls, getCalls, issuedClass>>
vars == <<config, control, bucket, db, test_files, writeState, readState, metrics,
          series, plotted, history>>

Files == 1..file_count

EmptySeries ==
  [file_size |-> <<>>, upload_time |-> <<>>, write_throughput |-> <<>>,
   read_throughput |-> <<>>, avg_latency |-> <<>>]

NoUpload == [status |-> "none", invoked |-> FALSE, receipts |-> <<>>]
NoTask == [state |-> "none", len |-> 0, latency |-> 0]

\* Strictly ascending sequences over S of length 1..n (FILE_SIZES_MB is ascending).
SeqsUpTo(S, n) ==
  {s \in UNION {[1..k -> S] : k \in 1..n} : \A i \in 1..(Len(s) - 1) : s[i] < s[i + 1]}

Init ==
  /\ variant \in Variants
  /\ file_count \in 1..MaxFileCount
  /\ num_threads \in 1..MaxThreads
  /\ file_sizes_mb \in SeqsUpTo(SizeChoicesMB, MaxSizes)
  /\ pc = IF variant = "s3" THEN "create_bucket" ELSE "loop"
  /\ error = "none"
  /\ bucket = "unknown"
  /\ sizeIdx = 1
  /\ fileIdx = 1
  /\ db = "none"
  /\ test_files = {}
  /\ payloads = {}
  /\ timer = "off"
  /\ putInFlight = {}
  /\ stored = {}
  /\ mpu = [f \in Files |-> NoUpload]
  /\ chunks = <<>>
  /\ chunkOwner = 0
  /\ parts = <<>>
  /\ upload_time = -1
  /\ write_throughput = -1
  /\ reads = [f \in Files |-> NoTask]
  /\ results_read = <<>>
  /\ read_throughput = -1
  /\ avg_latency = -1
  /\ series = EmptySeries
  /\ plotted = FALSE
  /\ faulted = 0
  /\ putCalls = [f \in Files |-> 0]
  /\ getCalls = [f \in Files |-> 0]
  /\ issuedClass = 0

\* --------------------------------------------------------- thread pools
Running(tasks) == {i \in DOMAIN tasks : tasks[i].state = "running"}
Pending(tasks) == {i \in DOMAIN tasks : tasks[i].state = "pending"}
Finished(tasks) == {i \in DOMAIN tasks : tasks[i].state \in {"ok", "failed"}}

\* Mutant of WorkerAvailable: one worker too many.
WorkerOneTooMany(tasks, max_workers) == Cardinality(Running(tasks)) <= max_workers

\* A worker of ThreadPoolExecutor(max_workers) is free to take a work item.
WorkerAvailable(tasks, max_workers) == Cardinality(Running(tasks)) < max_workers

\* The work queue is first-in first-out: the next item is the oldest pending one.
NextPending(tasks) == CHOOSE i \in Pending(tasks) : \A j \in Pending(tasks) : i <= j

\* Exit of the `with ThreadPoolExecutor` block: shutdown(wait=True) returns once no
\* work item is pending or running.
PoolJoined(tasks) == Running(tasks) = {} /\ Pending(tasks) = {}

\* The main thread stops with the exception `e`.
Raise(e) == pc' = "failed" /\ error' = e

\* The first backend failure of the run is remembered with its size class.
Fault == faulted' = IF faulted = 0 THEN sizeIdx ELSE faulted

Issued == issuedClass' = IF sizeIdx > issuedClass THEN sizeIdx ELSE issuedClass

CurrentSizeMB == file_sizes_mb[sizeIdx]

\* ------------------------------------------------ s3bench.py: the bucket
\* Mutant of SwallowedBucketErrors: only the first except clause.
SwallowedOnlyExists == {"BucketAlreadyExists"}

\* The exceptions of create_bucket that the try statement catches.
SwallowedBucketErrors == {"BucketAlreadyExists", "BucketAlreadyOwnedByYou"}

CreateBucket ==
  /\ pc = "create_bucket"
  /\ \E o \in BucketOutcomes :
       /\ bucket' = o
       /\ IF o = "ok" \/ o \in SwallowedBucketErrors
            THEN pc' = "loop" /\ error' = error
            ELSE Raise(o)
  /\ UNCHANGED <<config, sizeIdx, fileIdx, db, test_files, writeState, readState,
                 metrics, series, plotted, history>>

\* ------------------------------------------------- the loop over sizes
\* for file_size in FILE_SIZES_MB: the body starts; the handle is opened (rocksdb)
\* and the keys of the pass are generated.
BeginPass ==
  /\ pc = "loop"
  /\ sizeIdx <= Len(file_sizes_mb)
  /\ db' = IF variant = "rocksdb" THEN "open" ELSE db
  /\ test_files' = Files
  /\ pc' = "start_timer"
  /\ UNCHANGED <<config, error, sizeIdx, fileIdx, bucket, writeState, readState,
                 metrics, series, plotted, history>>

\* The loop is exhausted: the series go to the chart sink.
EndLoop ==
  /\ pc = "loop"
  /\ sizeIdx > Len(file_sizes_mb)
  /\ pc' = "plot"
  /\ UNCHANGED <<config, error, sizeIdx, fileIdx, bucket, db, test_files, writeState,
                 readState, metrics, series, plotted, history>>

Plot ==
  /\ pc = "plot"
  /\ plotted' = TRUE
  /\ pc' = "done"
  /\ UNCHANGED <<config, error, sizeIdx, fileIdx, bucket, db, test_files, writeState,
                 readState, metrics, series, history>>

\* ------------------------------------------------------------- writing
\* start_time = time.time()
StartTimer ==
  /\ pc = "start_timer"
  /\ timer' = "running"
  /\ fileIdx' = 1
  /\ pc' = "write"
  /\ UNCHANGED <<config, error, sizeIdx, bucket, db, test_files, payloads, putInFlight,
                 stored, mpu, chunks, chunkOwner, parts, readState, metrics, series,
                 plotted, history>>

\* Mutant of WriteLoopDone: the loop stops one file early.
WriteLoopDoneEarly(idx, n) == idx >= n

\* for file in test_files: the loop is exhausted.
WriteLoopDone(idx, n) == idx > n

\* rocksbench.py: the right-hand side of db[file] = generate_test_data(DATA_SIZE).
GeneratePayload ==
  /\ pc = "write"
  /\ variant = "rocksdb"
  /\ ~WriteLoopDone(fileIdx, file_count)
  /\ payloads' = payloads \cup {fileIdx}
  /\ pc' = "put"
  /\ UNCHANGED <<config, error, sizeIdx, fileIdx, bucket, db, test_files, timer,
                 putInFlight, stored, mpu, chunks, chunkOwner, parts, readState, metrics,
                 series, plotted, history>>

\* rocksbench.py: db[file] = ... is called.
PutBegin ==
  /\ pc = "put"
  /\ putInFlight' = putInFlight \cup {fileIdx}
  /\ putCalls' = [putCalls EXCEPT ![fileIdx] = @ + 1]
  /\ Issued
  /\ pc' = "put_wait"
  /\ UNCHANGED <<config, error, sizeIdx, fileIdx, bucket, db, test_files, payloads, timer,
                 stored, mpu, chunks, chunkOwner, parts, readState, metrics, series,
                 plotted, faulted, getCalls>>

\* rocksbench.py: db[file] = ... returns, or raises.
PutEnd ==
  /\ pc = "put_wait"
  /\ putInFlight' = putInFlight \ {fileIdx}
  /\ \/ /\ stored' = stored \cup {fileIdx}
        /\ fileIdx' = fileIdx + 1
        /\ pc' = "write"
        /\ UNCHANGED <<error, faulted>>
     \/ /\ Fault
        /\ Raise("PutError")
        /\ UNCHANGED <<stored, fileIdx>>
  /\ UNCHANGED <<config, sizeIdx, bucket, db, test_files, payloads, timer, mpu, chunks,
                 chunkOwner, parts, readState, metrics, series, plotted, putCalls,
                 getCalls, issuedClass>>

\* ----------------------------------------- s3bench.py: multipart_upload
\* multipart_upload(file) is entered and calls s3.create_multipart_upload.
CreateMultipartUpload ==
  /\ pc = "write"
  /\ variant = "s3"
  /\ ~WriteLoopDone(fileIdx, file_count)
  /\ putCalls' = [putCalls EXCEPT ![fileIdx] = @ + 1]
  /\ Issued
  /\ \/ /\ mpu' = [mpu EXCEPT ![fileIdx].status = "open"]
        /\ putInFlight' = putInFlight \cup {fileIdx}
        /\ pc' = "mp_generate"
        /\ UNCHANGED <<error, faulted>>
     \/ /\ Fault
        /\ Raise("CreateMultipartUploadError")
        /\ UNCHANGED <<mpu, putInFlight>>
  /\ UNCHANGED <<config, sizeIdx, fileIdx, bucket, db, test_files, payloads, timer, stored,
                 chunks, chunkOwner, parts, readState, metrics, series, plotted, getCalls>>

\* The payload is generated and sliced, and every slice is submitted to
\* ThreadPoolExecutor(max_workers=num_parts) as upload_part(file, i + 1, ...).
SubmitParts ==
  /\ pc = "mp_generate"
  /\ payloads' = payloads \cup {fileIdx}
  /\ chunks' = [p \in 1..NumParts(DataSize(CurrentSizeMB)) |->
                  [state |-> "pending", len |-> PartLen(DataSize(CurrentSizeMB), p),
                   seq |-> 0]]
  /\ chunkOwner' = fileIdx
  /\ parts' = <<>>
  /\ pc' = "mp_collect"
  /\ UNCHANGED <<config, error, sizeIdx, fileIdx, bucket, db, test_files, timer,
                 putInFlight, stored, mpu, readState, metrics, series, plotted, history>>

\* A worker of the chunk pool takes the next upload_part call.
ChunkStart ==
  /\ Pending(chunks) # {}
  /\ WorkerAvailable(chunks, Len(chunks))
  /\ chunks' = [chunks EXCEPT ![NextPending(chunks)].state = "running"]
  /\ UNCHANGED <<config, control, bucket, db, test_files, payloads, timer, putInFlight,
                 stored, mpu, chunkOwner, parts, readState, metrics, series, plotted,
                 history>>

\* s3.upload_part returns a receipt, or raises; seq is the order of finishing.
ChunkFinish ==
  \E p \in Running(chunks) :
    /\ \/ /\ chunks' = [chunks EXCEPT ![p].state = "ok",
                                       ![p].seq = Cardinality(Finished(chunks)) + 1]
          /\ UNCHANGED faulted
       \/ /\ chunks' = [chunks EXCEPT ![p].state = "failed",
                                       ![p].seq = Cardinality(Finished(chunks)) + 1]
          /\ Fault
    /\ UNCHANGED <<config, control, bucket, db, test_files, payloads, timer, putInFlight,
                   stored, mpu, chunkOwner, parts, readState, metrics, series, plotted,
                   putCalls, getCalls, issuedClass>>

\* Mutant of FuturesToCollect: results are taken as the uploads complete.
FuturesAsCompleted(tasks, collected) ==
  {p \in DOMAIN tasks : \A i \in 1..Len(collected) : collected[i] # p}

\* for future in futures: the future whose result the main thread takes next.
FuturesToCollect(tasks, collected) == {Len(collected) + 1} \cap DOMAIN tasks

\* Mutant of PartResultRaises: the exception of a failed upload_part is dropped.
PartResultIgnored(task) == FALSE

\* future.result() re-raises the exception of a failed upload_part.
PartResultRaises(task) == task.state = "failed"

\* parts.append(future.result())
CollectPart ==
  /\ pc = "mp_collect"
  /\ \E p \in FuturesToCollect(chunks, parts) \cap Finished(chunks) :
       IF PartResultRaises(chunks[p])
         THEN /\ pc' = "mp_join_err"
              /\ UNCHANGED parts
         ELSE /\ parts' = Append(parts, p)
              /\ pc' = IF Len(parts) + 1 = Len(chunks) THEN "mp_join" ELSE "mp_collect"
  /\ UNCHANGED <<config, error, sizeIdx, fileIdx, bucket, db, test_files, payloads, timer,
                 putInFlight, stored, mpu, chunks, chunkOwner, readState, metrics, series,
                 plotted, history>>

\* The with block of the chunk pool is left normally.
JoinParts ==
  /\ pc = "mp_join"
  /\ PoolJoined(chunks)
  /\ pc' = "mp_complete"
  /\ UNCHANGED <<config, error, sizeIdx, fileIdx, bucket, db, test_files, writeState,
                 readState, metrics, series, plotted, history>>

\* The with block of the chunk pool is left by the exception of future.result():
\* the remaining uploads are waited for, then the exception leaves multipart_upload.
JoinPartsRaise ==
  /\ pc = "mp_join_err"
  /\ PoolJoined(chunks)
  /\ putInFlight' = putInFlight \ {fileIdx}
  /\ Raise("UploadPartError")
  /\ UNCHANGED <<config, sizeIdx, fileIdx, bucket, db, test_files, payloads, timer, stored,
                 mpu, chunks, chunkOwner, parts, readState, metrics, series, plotted,
                 history>>

\* s3.complete_multipart_upload(..., MultipartUpload={'Parts': parts})
CompleteMultipartUpload ==
  /\ pc = "mp_complete"
  /\ putInFlight' = putInFlight \ {fileIdx}
  /\ \/ /\ mpu' = [mpu EXCEPT ![fileIdx] =
                     [status |-> "completed", invoked |-> TRUE, receipts |-> parts]]
        /\ stored' = stored \cup {fileIdx}
        /\ fileIdx' = fileIdx + 1
        /\ chunks' = <<>>
        /\ chunkOwner' = 0
        /\ parts' = <<>>
        /\ pc' = "write"
        /\ UNCHANGED <<error, faulted>>
     \/ /\ mpu' = [mpu EXCEPT ![fileIdx] =
                     [status |-> "open", invoked |-> TRUE, receipts |-> parts]]
        /\ Fault
        /\ Raise("CompleteMultipartUploadError")
        /\ UNCHANGED <<stored, fileIdx, chunks, chunkOwner, parts>>
  /\ UNCHANGED <<config, sizeIdx, bucket, db, test_files, payloads, timer, readState,
                 metrics, series, plotted, putCalls, getCalls, issuedClass>>

\* ------------------------------------------------ the end of the writes
\* upload_time = time.time() - start_time (rounded at once in rocksbench.py), then
\* write_throughput = (FILE_COUNT * DATA_SIZE) / upload_time.
StopTimer ==
  /\ pc = "write"
  /\ WriteLoopDone(fileIdx, file_count)
  /\ timer' = "stopped"
  /\ \E t \in UploadTimeChoices :
       LET ut == IF variant = "rocksdb" THEN round(t) ELSE t
       IN  /\ upload_time' = ut
           /\ IF ut = 0
                THEN /\ Raise("ZeroDivisionError")
                     /\ UNCHANGED write_throughput
                ELSE /\ write_throughput' =
                          ThroughputMB(file_count * DataSize(CurrentSizeMB), ut)
                     /\ pc' = "submit_reads"
                     /\ UNCHANGED error
  /\ UNCHANGED <<config, sizeIdx, fileIdx, bucket, db, test_files, payloads, putInFlight,
                 stored, mpu, chunks, chunkOwner, parts, readState, read_throughput,
                 avg_latency, series, plotted, history>>

\* -------------------------------------------------------------- reading
\* executor.map(read_file, test_files) submits one read_file call per key.
SubmitReads ==
  /\ pc = "submit_reads"
  /\ reads' = [f \in Files |-> [state |-> "pending", len |-> 0, latency |-> 0]]
  /\ results_read' = <<>>
  /\ pc' = "collect_reads"
  /\ UNCHANGED <<config, error, sizeIdx, fileIdx, bucket, db, test_files, writeState,
                 metrics, series, plotted, history>>

\* A worker of ThreadPoolExecutor(max_workers=NUM_THREADS) takes the next read_file
\* call, which issues the get.
ReadStart ==
  /\ Pending(reads) # {}
  /\ WorkerAvailable(reads, num_threads)
  /\ LET f == NextPending(reads)
     IN  /\ reads' = [reads EXCEPT ![f].state = "running"]
         /\ getCalls' = [getCalls EXCEPT ![f] = @ + 1]
  /\ Issued
  /\ UNCHANGED <<config, control, bucket, db, test_files, writeState, results_read,
                 metrics, series, plotted, faulted, putCalls>>

\* read_file returns (data, latency), or the get raises (always, for a key that was
\* never stored).
ReadFinish ==
  \E f \in Running(reads) :
    /\ \/ /\ f \in stored
          /\ \E l \in LatencyChoices :
               reads' = [reads EXCEPT ![f] =
                           [state |-> "ok", len |-> DataSize(CurrentSizeMB), latency |-> l]]
          /\ UNCHANGED faulted
       \/ /\ reads' = [reads EXCEPT ![f].state = "failed"]
          /\ Fault
    /\ UNCHANGED <<config, control, bucket, db, test_files, writeState, results_read,
                   metrics, series, plotted, putCalls, getCalls, issuedClass>>

\* Mutant of ReadResultRaises: a failed read is recorded as a zero-length read.
ReadResultIgnored(task) == FALSE

\* The iterator of executor.map re-raises the exception of a failed read_file.
ReadResultRaises(task) == task.state = "failed"

\* The work items still pending are cancelled (the iterator's finally clause).
CancelPending(tasks) ==
  [f \in DOMAIN tasks |->
     IF tasks[f].state = "pending" THEN [tasks[f] EXCEPT !.state = "cancelled"]
     ELSE tasks[f]]

\* list(...) takes the next result of executor.map, in the order of test_files.
CollectRead ==
  /\ pc = "collect_reads"
  /\ Len(results_read) < file_count
  /\ LET f == Len(results_read) + 1
     IN  /\ f \in Finished(reads)
         /\ IF ReadResultRaises(reads[f])
              THEN /\ reads' = CancelPending(reads)
                   /\ pc' = "read_join_err"
                   /\ UNCHANGED results_read
              ELSE /\ results_read' =
                        Append(results_read,
                               [len |-> reads[f].len, latency |-> reads[f].latency])
                   /\ UNCHANGED <<reads, pc>>
  /\ UNCHANGED <<config, error, sizeIdx, fileIdx, bucket, db, test_files, writeState,
                 metrics, series, plotted, history>>

\* Mutant of ReadBarrier: the main thread goes on after the first result, without
\* joining the pool.
ReadBarrierFirst == Len(results_read) >= 1

\* list(executor.map(...)) has returned and the with block has been left: every
\* result is collected and no work item is pending or running.
ReadBarrier == Len(results_read) = file_count /\ PoolJoined(reads)

JoinReads ==
  /\ pc = "collect_reads"
  /\ ReadBarrier
  /\ pc' = IF variant = "rocksdb" THEN "close" ELSE "aggregate"
  /\ UNCHANGED <<config, error, sizeIdx, fileIdx, bucket, db, test_files, writeState,
                 readState, metrics, series, plotted, history>>

\* The with block of the read pool is left by the exception: the running reads are
\* waited for, then the exception leaves the function.
JoinReadsRaise ==
  /\ pc = "read_join_err"
  /\ PoolJoined(reads)
  /\ Raise("ReadError")
  /\ UNCHANGED <<config, sizeIdx, fileIdx, bucket, db, test_files, writeState, readState,
                 metrics, series, plotted, history>>

\* rocksbench.py: db.close()
CloseDb ==
  /\ pc = "close"
  /\ db' = "closed"
  /\ pc' = "aggregate"
  /\ UNCHANGED <<config, error, sizeIdx, fileIdx, bucket, test_files, writeState,
                 readState, metrics, series, plotted, history>>

\* ---------------------------------------------------------- aggregating
\* read_throughput and avg_latency are computed; rocksbench.py rounds the three
\* values it has not rounded yet.
Aggregate ==
  /\ pc = "aggregate"
  /\ LET rt == ThroughputMB(SumLen(results_read), upload_time)
         al == AvgLatency(results_read)
     IN  IF variant = "rocksdb"
           THEN /\ read_throughput' = round(rt)
                /\ write_throughput' = round(write_throughput)
                /\ avg_latency' = round(al)
           ELSE /\ read_throughput' = rt
                /\ avg_latency' = al
                /\ UNCHANGED write_throughput
  /\ pc' = "record"
  /\ UNCHANGED <<config, error, sizeIdx, fileIdx, bucket, db, test_files, writeState,
                 readState, upload_time, series, plotted, history>>

\* Mutant of RecordEntry: the entries are inserted at the front of the series.
RecordEntryPrepend(s, v, mb, ut, wt, rt, al) ==
  [file_size |-> IF v = "s3" THEN <<mb>> \o s.file_size ELSE s.file_size,
   upload_time |-> <<ut>> \o s.upload_time,
   write_throughput |-> <<wt>> \o s.write_throughput,
   read_throughput |-> <<rt>> \o s.read_throughput,
   avg_latency |-> <<al>> \o s.avg_latency]

\* The four appends (s3bench.py also appends the file size).
RecordEntry(s, v, mb, ut, wt, rt, al) ==
  [file_size |-> IF v = "s3" THEN Append(s.file_size, mb) ELSE s.file_size,
   upload_time |-> Append(s.upload_time, ut),
   write_throughput |-> Append(s.write_throughput, wt),
   read_throughput |-> Append(s.read_throughput, rt),
   avg_latency |-> Append(s.avg_latency, al)]

\* The metrics of the pass are appended to the series and the loop goes to the next
\* size; the locals of the pass are dead from here on.
Record ==
  /\ pc = "record"
  /\ series' = RecordEntry(series, variant, CurrentSizeMB, upload_time, write_throughput,
                           read_throughput, avg_latency)
  /\ sizeIdx' = sizeIdx + 1
  /\ fileIdx' = 1
  /\ pc' = "loop"
  /\ test_files' = {}
  /\ payloads' = {}
  /\ timer' = "off"
  /\ stored' = {}
  /\ mpu' = [f \in Files |-> NoUpload]
  /\ reads' = [f \in Files |-> NoTask]
  /\ results_read' = <<>>
  /\ upload_time' = -1
  /\ write_throughput' = -1
  /\ read_throughput' = -1
  /\ avg_latency' = -1
  /\ putCalls' = [f \in Files |-> 0]
  /\ getCalls' = [f \in Files |-> 0]
  /\ UNCHANGED <<config, error, bucket, db, putInFlight, chunks, chunkOwner, parts,
                 plotted, faulted, issuedClass>>

\* ------------------------------------------------------- specification
Next ==
  \/ CreateBucket
  \/ BeginPass
  \/ EndLoop
  \/ Plot
  \/ StartTimer
  \/ GeneratePayload
  \/ PutBegin
  \/ PutEnd
  \/ CreateMultipartUpload
  \/ SubmitParts
  \/ ChunkStart
  \/ ChunkFinish
  \/ CollectPart
  \/ JoinParts
  \/ JoinPartsRaise
  \/ CompleteMultipartUpload
  \/ StopTimer
  \/ SubmitReads
  \/ ReadStart
  \/ ReadFinish
  \/ CollectRead
  \/ JoinReads
  \/ JoinReadsRaise
  \/ CloseDb
  \/ Aggregate
  \/ Record

Spec == Init /\ [][Next]_vars

\* ============================================================== claims
SeriesNames == {"upload_time", "write_throughput", "read_throughput", "avg_latency"}

\* ceil(S / C), computed without the code's case split.
CeilDiv(S, C) == (S + C - 1) \div C

ReadsInFlight == Running(reads)
ChunksInFlight == Running(chunks)

\* C1: the metrics of a pass (read throughput, average latency) are computed only
\* after all N read tasks have returned: once the main thread is past the read pool,
\* or either metric is set, no read task is pending or running and all N results
\* are collected.
C1_ReadBarrier ==
  (pc \in {"close", "aggregate", "record"} \/ read_throughput # -1 \/ avg_latency # -1)
    => /\ \A f \in Files : reads[f].state = "ok"
       /\ Len(results_read) = file_count

\* Aggregation is about to start in a pass whose reads outnumbered the pool.
C1_Witness ==
  /\ pc = "aggregate"
  /\ file_count > num_threads
  /\ file_count >= 2

\* C2: the receipts handed to complete_multipart_upload are exactly ceil(S/C) entries
\* with part numbers 1, 2, ..., ceil(S/C) in ascending order, whatever the order in
\* which the chunk uploads finished.
C2_PartsInOrder ==
  LET n == CeilDiv(DataSize(CurrentSizeMB), part_size)
  IN  /\ pc = "mp_complete" => parts = [i \in 1..n |-> i]
      /\ \A f \in Files : mpu[f].invoked => mpu[f].receipts = [i \in 1..n |-> i]

\* Three parts, the last one not full, are about to be handed over, and the third
\* part finished first.
C2_Witness ==
  /\ pc = "mp_complete"
  /\ Len(chunks) = 3
  /\ DataSize(CurrentSizeMB) % part_size # 0
  /\ chunks[3].seq = 1
  /\ chunks[1].seq = 3

\* C3: complete_multipart_upload is invoked only after every chunk upload of the
\* object succeeded; once a chunk upload has failed, complete is never invoked for
\* the object, the upload is left open (neither completed nor aborted), control
\* never goes past the chunk pool, and the run ends with the chunk's exception.
C3_CompleteOnlyAfterAllParts ==
  /\ chunkOwner # 0 /\ (pc = "mp_complete" \/ mpu[chunkOwner].invoked)
       => \A p \in DOMAIN chunks : chunks[p].state = "ok"
  /\ (\E p \in DOMAIN chunks : chunks[p].state = "failed")
       => /\ ~mpu[chunkOwner].invoked
          /\ mpu[chunkOwner].status = "open"
          /\ pc \in {"mp_collect", "mp_join_err", "failed"}
          /\ pc = "failed" => error = "UploadPartError"

\* The put has failed on a chunk while another chunk of the object succeeded.
C3_Witness ==
  /\ pc = "failed"
  /\ error = "UploadPartError"
  /\ \E p, q \in DOMAIN chunks : chunks[p].state = "failed" /\ chunks[q].state = "ok"

\* C4: once a put, a multipart sub-step or a get has failed in the pass for size
\* class i: no put or get of the pass is issued twice, no metric entry is recorded
\* for class i, the loop stays at class i, no put or get is issued for a later
\* class, and the chart sink is not invoked.
C4_FailureAbortsRun ==
  /\ \A f \in Files : putCalls[f] <= 1 /\ getCalls[f] <= 1
  /\ faulted # 0 =>
       /\ \A n \in SeriesNames : Len(series[n]) < faulted
       /\ sizeIdx = faulted
       /\ issuedClass <= faulted
       /\ ~plotted
       /\ pc \notin {"close", "aggregate", "record", "loop", "plot", "done"}

\* A get failed in the first of two passes and the run has ended.
C4_Witness ==
  /\ pc = "failed"
  /\ error = "ReadError"
  /\ faulted = 1
  /\ Len(file_sizes_mb) = 2

\* The throughput entry a pass for `mb` records, given the upload time it recorded.
C5_Expected(mb, ut) ==
  LET t == ThroughputMB(file_count * DataSize(mb), ut)
  IN  IF variant = "rocksdb" THEN round(t) ELSE t

\* C5: the four series always have the same length k = the number of completed
\* passes (the loop index minus one); the entry at index i is the one of the pass
\* for the i-th configured size; after a normal finish k is the number of sizes.
C5_SeriesAligned ==
  /\ \A n \in SeriesNames : Len(series[n]) = sizeIdx - 1
  /\ sizeIdx <= Len(file_sizes_mb) + 1
  /\ pc \in {"plot", "done"} => sizeIdx = Len(file_sizes_mb) + 1
  /\ variant = "s3" => series.file_size = SubSeq(file_sizes_mb, 1, sizeIdx - 1)
  /\ \A i \in 1..(sizeIdx - 1) :
       /\ series.write_throughput[i] = C5_Expected(file_sizes_mb[i], series.upload_time[i])
       /\ series.read_throughput[i] = C5_Expected(file_sizes_mb[i], series.upload_time[i])

\* A run over two sizes has finished normally.
C5_Witness ==
  /\ pc = "done"
  /\ Len(file_sizes_mb) = 2
  /\ Len(series.upload_time) = 2

\* C6: no pass of the Embedded-KV variant ends with its handle still open: not
\* after a normal pass, not after a failing put, not after a failing get.
C6_HandleReleased ==
  pc \in {"aggregate", "record", "loop", "plot", "done", "failed"} => db # "open"

C8_BucketExistsSwallowed ==
  bucket \in {"BucketAlreadyExists", "BucketAlreadyOwnedByYou"}
    => error \notin BucketOutcomes /\ pc # "create_bucket"

\* The bucket was already owned and the first pass is under way.
C8_Witness ==
  /\ bucket = "BucketAlreadyOwnedByYou"
  /\ sizeIdx = 1
  /\ pc = "write"

\* C9: in both variants, every value in the four metric series is rounded to 5
\* fractional digits (a multiple of 10 ticks).
C9_RecordedRounded ==
  \A n \in SeriesNames : \A i \in 1..Len(series[n]) : series[n][i] = round(series[n][i])

\* C10: at most one put is in progress; the chunk uploads in flight belong to that
\* put's object and are at most its chunk count; at most NUM_THREADS gets are in
\* flight; no get is in flight while a put or a chunk upload is.
C10_BoundedConcurrency ==
  /\ Cardinality(putInFlight) <= 1
  /\ ChunksInFlight # {} =>
       /\ putInFlight = {chunkOwner}
       /\ Cardinality(ChunksInFlight) <= CeilDiv(DataSize(CurrentSizeMB), part_size)
  /\ Cardinality(ReadsInFlight) <= num_threads
  /\ ReadsInFlight # {} => putInFlight = {} /\ ChunksInFlight = {}

\* The read pool is full and a read is still queued.
C10_Witness ==
  /\ Cardinality(ReadsInFlight) = num_threads
  /\ Pending(reads) # {}
  /\ file_count > num_threads

====
